---- MODULE Spec2Model ----
(***************************************************************************)
(* Disaster relief distribution: the weighted graph with Dijkstra's        *)
(* shortest paths (dijkstra.py) and the priority-ordered greedy allocator  *)
(* (greedy_allocation.py).                                                 *)
(*                                                                         *)
(* Quantities (supply, demand, amounts) are counted in thousandths of a    *)
(* unit, so the code's tolerance 0.001 is the integer EPSILON = 1 and a    *)
(* quantity of exactly 0.001 is representable.  Float rounding is not      *)
(* modelled.                                                               *)
(***************************************************************************)
EXTENDS Integers, Sequences, FiniteSets, TLC

\* ---------------------------------------------------------------- bounds
NumNodes == 3
MaxWeight == 2
MaxEdges == 2
\* largest initial supply and initial demand, in thousandths of a unit
MaxQty == 4
\* calls of compute_all_shortest_paths in one run
MaxTableCalls == 2
\* calls of allocate_resources on one GreedyAllocator
MaxRuns == 2

\* ------------------------------------------------------------- constants
\* Python's None (dijkstra.py:60, greedy_allocation.py:194); ids are >= 0
None == -1
\* the tolerance 0.001 (greedy_allocation.py:150, 198), in thousandths
EPSILON == 1

Nodes == 0 .. (NumNodes - 1)
\* ids handed to add_edge: one below and one above the declared range too
NodeArgs == -1 .. NumNodes
\* weights handed to add_edge: one negative weight too
WeightArgs == -1 .. MaxWeight

\* float('inf') (dijkstra.py:56): above every finite distance the model forms
Infinity == (MaxEdges + 1) * (MaxWeight + 1) + 2

\* the relief centers and the disaster zones in the order they are handed to
\* GreedyAllocator, by id (the ids of the module's own scenario)
CenterOrder == <<0, 1>>
ZoneOrder == <<2, 3>>
CenterIds == {CenterOrder[i] : i \in 1 .. Len(CenterOrder)}
ZoneIds == {ZoneOrder[i] : i \in 1 .. Len(ZoneOrder)}
\* two sinks are ordered by two priority tiers; two sources are ranked by
\* distances 0 and 1 (equal, nearer, farther) or unreachable
Priorities == {1, 2}
DistValues == {0, 1, Infinity}
Pairs == CenterIds \X ZoneIds

VARIABLES
    adjacency_list,   \* Graph.adjacency_list: node -> sequence of <<neighbor, weight>>
    add_calls,        \* number of add_edge calls made so far
    raised,           \* "none", or the exception the last add_edge call raised
    dpc,              \* position of the dijkstra call: "idle", "loop", "done"
    start_node,       \* dijkstra's argument
    distances,        \* dijkstra's local: node -> tentative distance
    previous,         \* dijkstra's local: node -> predecessor or None
    priority_queue,   \* dijkstra's heap, as the set of its (distance, node) entries
    visited,          \* dijkstra's local: set of visited nodes
    ppc,              \* get_shortest_path: "none", "returned", or "looping" (no return)
    path_args,        \* get_shortest_path's arguments <<start, end>>
    path,             \* get_shortest_path's result
    table_calls,      \* number of compute_all_shortest_paths calls made so far
    table_args,       \* the last call's <<relief_centers, disaster_zones>>
    shortest_distances, \* the last call's result: (center, zone) -> distance
    initial_supply,   \* ReliefCenter.initial_supply, by center id
    remaining_supply, \* ReliefCenter.remaining_supply
    center_allocations, \* ReliefCenter.allocations
    initial_demand,   \* DisasterZone.initial_demand, by zone id
    remaining_demand, \* DisasterZone.remaining_demand
    priority,         \* DisasterZone.priority
    zone_allocations, \* DisasterZone.allocations
    table,            \* GreedyAllocator.distances: (center id, zone id) -> distance
    total_distance_covered,
    total_supplies_delivered,
    apc,              \* position of allocate_resources: "new", "loop", "done"
    sorted_zones,     \* allocate_resources' local: zone ids in service order
    zi,               \* index into sorted_zones of the zone being served
    stalled,          \* zones whose while loop ended at the break (the warning printed)
    records,          \* the allocations in the order made (the lines printed)
    report            \* the reports allocate_resources has returned, one per call

qvars == <<ppc, path_args, path, table_calls, table_args, shortest_distances>>

gvars == <<adjacency_list, add_calls, raised, dpc, start_node, distances,
           previous, priority_queue, visited, qvars>>

avars == <<initial_supply, remaining_supply, center_allocations, initial_demand,
           remaining_demand, priority, zone_allocations, table,
           total_distance_covered, total_supplies_delivered, apc, sorted_zones,
           zi, stalled, records, report>>

vars == <<gvars, avars>>

\* ------------------------------------------------------------ Graph
\* Graph.__init__ followed by no dijkstra call yet
GraphNew ==
    /\ adjacency_list = [i \in Nodes |-> <<>>]
    /\ add_calls = 0
    /\ raised = "none"
    /\ dpc = "idle"
    /\ start_node = 0
    /\ distances = [i \in Nodes |-> Infinity]
    /\ previous = [i \in Nodes |-> None]
    /\ priority_queue = {}
    /\ visited = {}
    /\ ppc = "none"
    /\ path_args = <<>>
    /\ path = <<>>
    /\ table_calls = 0
    /\ table_args = <<>>
    /\ shortest_distances = <<>>

\* self.adjacency_list[key].append(entry); the caller has checked key \in Nodes
list_append(adj, key, entry) ==
    [adj EXCEPT ![key] = Append(@, entry)]

\* Graph.add_edge: two appends in sequence, each a dict lookup that raises
\* KeyError for a key outside range(num_nodes).  No check of the weight.
add_edge(source, destination, weight) ==
    /\ dpc = "idle"
    /\ raised = "none"
    /\ add_calls < MaxEdges
    /\ add_calls' = add_calls + 1
    /\ IF source \notin Nodes
       THEN /\ raised' = "KeyError"
            /\ adjacency_list' = adjacency_list
       ELSE LET after_first == list_append(adjacency_list, source, <<destination, weight>>)
            IN  IF destination \notin Nodes
                THEN /\ raised' = "KeyError"
                     /\ adjacency_list' = after_first
                ELSE /\ raised' = "none"
                     /\ adjacency_list' = list_append(after_first, destination, <<source, weight>>)
    /\ table_calls = 0
    /\ UNCHANGED <<dpc, start_node, distances, previous, priority_queue, visited>>
    /\ UNCHANGED <<qvars, avars>>

\* ------------------------------------------------------------ dijkstra
\* heapq.heappop on (distance, node) tuples: the lexicographically least entry
heappop(pq) ==
    CHOOSE e \in pq : \A f \in pq : e[1] < f[1] \/ (e[1] = f[1] /\ e[2] <= f[2])

\* distance = current_distance + weight
tentative_weight_only(current_distance, weight) == weight

tentative(current_distance, weight) == current_distance + weight

\* the for loop over adjacency_list[current_node], from edge i on; st holds the
\* locals distances, previous and priority_queue
RECURSIVE relax_edges(_, _, _, _, _)
relax_edges(edges, i, current_node, current_distance, st) ==
    IF i > Len(edges) THEN st
    ELSE LET neighbor == edges[i][1]
             distance == tentative(current_distance, edges[i][2])
         IN  IF distance < st.distances[neighbor]
             THEN relax_edges(edges, i + 1, current_node, current_distance,
                      [distances |-> [st.distances EXCEPT ![neighbor] = distance],
                       previous |-> [st.previous EXCEPT ![neighbor] = current_node],
                       priority_queue |-> st.priority_queue \cup {<<distance, neighbor>>}])
             ELSE relax_edges(edges, i + 1, current_node, current_distance, st)

\* the for loop reads self.adjacency_list[current_node] and leaves it as it is
edges_after_scan_consumed(edges) == <<>>

edges_after_scan(edges) == edges

\* dijkstra's locals before the while loop, with the graph it works on
dijkstra_locals(adj, s) ==
    [adjacency_list |-> adj,
     distances |-> [i \in Nodes |-> IF i = s THEN 0 ELSE Infinity],
     previous |-> [i \in Nodes |-> None],
     priority_queue |-> {<<0, s>>},
     visited |-> {}]

\* the node left unmarked
mark_visited_not(seen, current_node) == seen

\* visited.add(current_node)
mark_visited(seen, current_node) == seen \cup {current_node}

\* one iteration of the while loop on the locals st (the heap is not empty)
dijkstra_iteration(st) ==
    LET top == heappop(st.priority_queue)
        current_distance == top[1]
        current_node == top[2]
        rest == st.priority_queue \ {top}
    IN  IF current_node \in st.visited
        THEN [st EXCEPT !.priority_queue = rest]
        ELSE IF current_distance > st.distances[current_node]
             THEN [st EXCEPT !.priority_queue = rest,
                             !.visited = mark_visited(@, current_node)]
             ELSE LET r == relax_edges(st.adjacency_list[current_node], 1,
                                       current_node, current_distance,
                                       [distances |-> st.distances,
                                        previous |-> st.previous,
                                        priority_queue |-> rest])
                  IN  [adjacency_list |->
                          [st.adjacency_list EXCEPT ![current_node] = edges_after_scan(@)],
                       distances |-> r.distances,
                       previous |-> r.previous,
                       priority_queue |-> r.priority_queue,
                       visited |-> mark_visited(st.visited, current_node)]

\* the while loop, to its end
RECURSIVE dijkstra_loop(_)
dijkstra_loop(st) ==
    IF st.priority_queue = {} THEN st ELSE dijkstra_loop(dijkstra_iteration(st))

\* Graph.dijkstra as one call: the locals when it returns
dijkstra(adj, s) == dijkstra_loop(dijkstra_locals(adj, s))

DijkstraLocals ==
    [adjacency_list |-> adjacency_list, distances |-> distances,
     previous |-> previous, priority_queue |-> priority_queue, visited |-> visited]

SetLocals(st) ==
    /\ adjacency_list' = st.adjacency_list
    /\ distances' = st.distances
    /\ previous' = st.previous
    /\ priority_queue' = st.priority_queue
    /\ visited' = st.visited

\* dijkstra(start_node), up to the while loop.  An add_edge that raised has
\* ended the run (no caller catches it before main.py:331), so no query follows.
dijkstra_begin(s) ==
    /\ dpc = "idle"
    /\ raised = "none"
    /\ table_calls = 0
    /\ start_node' = s
    /\ SetLocals(dijkstra_locals(adjacency_list, s))
    /\ dpc' = "loop"
    /\ UNCHANGED <<add_calls, raised>>
    /\ UNCHANGED <<qvars, avars>>

\* one iteration of the while loop that pops an already visited node: continue
dijkstra_skip ==
    /\ dpc = "loop"
    /\ priority_queue # {}
    /\ heappop(priority_queue)[2] \in visited
    /\ SetLocals(dijkstra_iteration(DijkstraLocals))
    /\ UNCHANGED <<add_calls, raised, dpc, start_node>>
    /\ UNCHANGED <<qvars, avars>>

\* one iteration of the while loop that pops an unvisited node
dijkstra_visit ==
    /\ dpc = "loop"
    /\ priority_queue # {}
    /\ heappop(priority_queue)[2] \notin visited
    /\ SetLocals(dijkstra_iteration(DijkstraLocals))
    /\ UNCHANGED <<add_calls, raised, dpc, start_node>>
    /\ UNCHANGED <<qvars, avars>>

\* the while loop ends on an empty heap: return distances, previous
dijkstra_return ==
    /\ dpc = "loop"
    /\ priority_queue = {}
    /\ dpc' = "done"
    /\ UNCHANGED <<adjacency_list, add_calls, raised, start_node, distances,
                   previous, priority_queue, visited>>
    /\ UNCHANGED <<qvars, avars>>

\* Graph.dijkstra as one step, from the call to the return
dijkstra_call(s) ==
    /\ dpc = "idle"
    /\ raised = "none"
    /\ table_calls = 0
    /\ start_node' = s
    /\ SetLocals(dijkstra(adjacency_list, s))
    /\ dpc' = "done"
    /\ UNCHANGED <<add_calls, raised>>
    /\ UNCHANGED <<qvars, avars>>

\* ------------------------------------------------------------ get_shortest_path
Reverse(seq) == [k \in 1 .. Len(seq) |-> seq[Len(seq) + 1 - k]]

\* the while loop that walks the predecessors back from current; a walk of
\* more than NumNodes nodes has met a node twice and never ends
RECURSIVE walk_back(_, _, _)
walk_back(prev, current, walked) ==
    IF current = None THEN [walked |-> walked, looping |-> FALSE]
    ELSE IF Len(walked) > NumNodes THEN [walked |-> walked, looping |-> TRUE]
         ELSE walk_back(prev, prev[current], Append(walked, current))

\* return path if path and path[0] == start else []
path_if_from_start(reversed, start) ==
    IF reversed # <<>> /\ reversed[1] = start THEN reversed ELSE <<>>

\* Graph.get_shortest_path(start, end, previous) on the map dijkstra returned
get_shortest_path(start, end) ==
    /\ dpc = "done"
    /\ ppc = "none"
    /\ path_args' = <<start, end>>
    /\ LET w == walk_back(previous, end, <<>>)
       IN  IF w.looping
           THEN /\ ppc' = "looping"
                /\ path' = <<>>
           ELSE /\ ppc' = "returned"
                /\ path' = path_if_from_start(Reverse(w.walked), start)
    /\ UNCHANGED <<adjacency_list, add_calls, raised, dpc, start_node, distances,
                   previous, priority_queue, visited, table_calls, table_args,
                   shortest_distances>>
    /\ UNCHANGED avars

\* ------------------------------------------------------------ compute_all_shortest_paths
\* the id lists main.py hands over: the first r nodes, and the nodes from q on
FirstNodes(r) == [k \in 1 .. r |-> k - 1]
NodesFrom(q) == [k \in 1 .. (NumNodes - q) |-> q + k - 1]

\* the inner loop: shortest_distances[(center, zone)] = distances[zone]
RECURSIVE store_row(_, _, _, _, _)
store_row(tbl, center, dist, disaster_zones, k) ==
    IF k > Len(disaster_zones) THEN tbl
    ELSE LET key == <<center, disaster_zones[k]>>
             kept == [p \in DOMAIN tbl \ {key} |-> tbl[p]]
         IN  store_row(kept @@ (key :> dist[disaster_zones[k]]),
                       center, dist, disaster_zones, k + 1)

\* the outer loop: for center in relief_centers, from position k on
RECURSIVE table_loop(_, _, _, _, _)
table_loop(adj, tbl, relief_centers, disaster_zones, k) ==
    IF k > Len(relief_centers) THEN [adjacency_list |-> adj, table |-> tbl]
    ELSE LET run == dijkstra(adj, relief_centers[k])
         IN  table_loop(run.adjacency_list,
                        store_row(tbl, relief_centers[k], run.distances, disaster_zones, 1),
                        relief_centers, disaster_zones, k + 1)

\* compute_all_shortest_paths(graph, relief_centers, disaster_zones)
compute_all_shortest_paths(relief_centers, disaster_zones) ==
    /\ dpc = "idle"
    /\ raised = "none"
    /\ table_calls < MaxTableCalls
    /\ table_calls' = table_calls + 1
    /\ table_args' = <<relief_centers, disaster_zones>>
    /\ LET out == table_loop(adjacency_list, <<>>, relief_centers, disaster_zones, 1)
       IN  /\ shortest_distances' = out.table
           /\ adjacency_list' = out.adjacency_list
    /\ UNCHANGED <<add_calls, raised, dpc, start_node, distances, previous,
                   priority_queue, visited, ppc, path_args, path>>
    /\ UNCHANGED avars

\* ------------------------------------------------------------ allocator
\* ReliefCenter.__init__, DisasterZone.__init__ and GreedyAllocator.__init__
\* on the given supplies, demands, priorities and distance table
AllocNew(supply, demand, prio, dist) ==
    /\ initial_supply = supply
    /\ remaining_supply = supply
    /\ center_allocations = [c \in CenterIds |-> <<>>]
    /\ initial_demand = demand
    /\ remaining_demand = demand
    /\ priority = prio
    /\ zone_allocations = [z \in ZoneIds |-> <<>>]
    /\ table = dist
    /\ total_distance_covered = 0
    /\ total_supplies_delivered = 0
    /\ apc = "new"
    /\ sorted_zones = <<>>
    /\ zi = 0
    /\ stalled = {}
    /\ records = <<>>
    /\ report = <<>>

\* the key with the demand ascending
sort_key_less_demand_ascending(a, b) ==
    \/ priority[a] < priority[b]
    \/ priority[a] = priority[b] /\ initial_demand[a] < initial_demand[b]

\* key=lambda z: (z.priority, -z.initial_demand), compared as Python tuples
sort_key_less(a, b) ==
    \/ priority[a] < priority[b]
    \/ priority[a] = priority[b] /\ -initial_demand[a] < -initial_demand[b]

\* sorted() is stable: x goes after every element whose key is not greater
RECURSIVE insert_sorted(_, _)
insert_sorted(seq, x) ==
    IF seq = <<>> THEN <<x>>
    ELSE IF sort_key_less(x, Head(seq)) THEN <<x>> \o seq
         ELSE <<Head(seq)>> \o insert_sorted(Tail(seq), x)

RECURSIVE sorted(_, _)
sorted(seq, n) ==
    IF n = 0 THEN <<>> ELSE insert_sorted(sorted(seq, n - 1), seq[n])

\* the test without the tolerance
has_supply_nonnegative(c) == remaining_supply[c] >= 0

\* if center.remaining_supply > 0.001
has_supply(c) == remaining_supply[c] > EPSILON

\* the comparison with <=
nearer_or_equal(distance, min_distance) == distance <= min_distance

\* if distance < min_distance
nearer(distance, min_distance) == distance < min_distance

\* the lookup with a default: self.distances.get(key, float('inf'))
distance_lookup_default(center_id, zone_id) ==
    IF <<center_id, zone_id>> \in DOMAIN table
    THEN [key_error |-> FALSE, distance |-> table[<<center_id, zone_id>>]]
    ELSE [key_error |-> FALSE, distance |-> Infinity]

\* self.distances[(center.center_id, zone_id)]: a dict subscript, which
\* raises KeyError for a pair that is not a key
distance_lookup(center_id, zone_id) ==
    IF <<center_id, zone_id>> \in DOMAIN table
    THEN [key_error |-> FALSE, distance |-> table[<<center_id, zone_id>>]]
    ELSE [key_error |-> TRUE, distance |-> None]

\* _find_nearest_available_center: the scan over self.centers.values() from
\* position i on; a pair missing from the table raises KeyError
RECURSIVE find_nearest(_, _, _, _)
find_nearest(i, zone_id, nearest_center, min_distance) ==
    IF i > Len(CenterOrder) THEN [center |-> nearest_center, key_error |-> FALSE]
    ELSE LET c == CenterOrder[i]
             looked == distance_lookup(c, zone_id)
         IN  IF has_supply(c)
             THEN IF looked.key_error
                  THEN [center |-> None, key_error |-> TRUE]
                  ELSE IF nearer(looked.distance, min_distance)
                       THEN find_nearest(i + 1, zone_id, c, looked.distance)
                       ELSE find_nearest(i + 1, zone_id, nearest_center, min_distance)
             ELSE find_nearest(i + 1, zone_id, nearest_center, min_distance)

\* the scan that leaves out the first center
_find_nearest_after_first(zone_id) == find_nearest(2, zone_id, None, Infinity)

\* the scan started from a bound above the unreachable sentinel
_find_nearest_with_unreachable(zone_id) == find_nearest(1, zone_id, None, Infinity + 1)

_find_nearest_available_center(zone_id) == find_nearest(1, zone_id, None, Infinity)

\* the amount without the min
allocation_amount_demand(demand, supply) == demand
allocation_amount_supply(demand, supply) == supply

\* one thousandth at a time
allocation_amount_one(demand, supply) == 1

\* amount = min(zone.remaining_demand, nearest_center.remaining_supply)
allocation_amount(demand, supply) == IF demand <= supply THEN demand ELSE supply

\* allocate_resources up to the for loop: the sort
allocate_resources_begin ==
    /\ apc = "new"
    /\ sorted_zones' = sorted(ZoneOrder, Len(ZoneOrder))
    /\ zi' = 1
    /\ apc' = "loop"
    /\ UNCHANGED <<initial_supply, remaining_supply, center_allocations,
                   initial_demand, remaining_demand, priority, zone_allocations,
                   table, total_distance_covered, total_supplies_delivered,
                   stalled, records, report>>
    /\ UNCHANGED gvars

\* the while condition fails: on to the next zone
zone_next ==
    /\ apc = "loop"
    /\ zi <= Len(sorted_zones)
    /\ ~(remaining_demand[sorted_zones[zi]] > EPSILON)
    /\ zi' = zi + 1
    /\ UNCHANGED <<initial_supply, remaining_supply, center_allocations,
                   initial_demand, remaining_demand, priority, zone_allocations,
                   table, total_distance_covered, total_supplies_delivered, apc,
                   sorted_zones, stalled, records, report>>
    /\ UNCHANGED gvars

\* nearest_center is None: the warning and the break
zone_break ==
    /\ apc = "loop"
    /\ zi <= Len(sorted_zones)
    /\ LET zone == sorted_zones[zi]
           found == _find_nearest_available_center(zone)
       IN  /\ remaining_demand[zone] > EPSILON
           /\ ~found.key_error
           /\ found.center = None
           /\ stalled' = stalled \cup {zone}
    /\ zi' = zi + 1
    /\ UNCHANGED <<initial_supply, remaining_supply, center_allocations,
                   initial_demand, remaining_demand, priority, zone_allocations,
                   table, total_distance_covered, total_supplies_delivered, apc,
                   sorted_zones, records, report>>
    /\ UNCHANGED gvars

\* the lookup in _find_nearest_available_center raises KeyError: the exception
\* leaves allocate_resources, no report is returned
zone_key_error ==
    /\ apc = "loop"
    /\ zi <= Len(sorted_zones)
    /\ remaining_demand[sorted_zones[zi]] > EPSILON
    /\ _find_nearest_available_center(sorted_zones[zi]).key_error
    /\ apc' = "KeyError"
    /\ UNCHANGED <<initial_supply, remaining_supply, center_allocations,
                   initial_demand, remaining_demand, priority, zone_allocations,
                   table, total_distance_covered, total_supplies_delivered,
                   sorted_zones, zi, stalled, records, report>>
    /\ UNCHANGED gvars

\* the new entry put in front of the list
record_prepend(allocations, entry) == <<entry>> \o allocations

\* self.allocations.append({...})
record_append(allocations, entry) == Append(allocations, entry)

\* the total overwritten by the last term
accumulate_last(total, term) == term

\* total += term
accumulate(total, term) == total + term

\* one pass of the while body that allocates: ReliefCenter.allocate,
\* DisasterZone.receive and the running totals
zone_allocate ==
    /\ apc = "loop"
    /\ zi <= Len(sorted_zones)
    /\ LET zone == sorted_zones[zi]
           found == _find_nearest_available_center(zone)
           center == found.center
           amount == allocation_amount(remaining_demand[zone], remaining_supply[center])
           distance == table[<<center, zone>>]
       IN  /\ remaining_demand[zone] > EPSILON
           /\ ~found.key_error
           /\ center # None
           /\ remaining_supply' = [remaining_supply EXCEPT ![center] = @ - amount]
           /\ center_allocations' = [center_allocations EXCEPT ![center] =
                  record_append(@, [zone_id |-> zone, amount |-> amount, distance |-> distance])]
           /\ remaining_demand' = [remaining_demand EXCEPT ![zone] = @ - amount]
           /\ zone_allocations' = [zone_allocations EXCEPT ![zone] =
                  record_append(@, [center_id |-> center, amount |-> amount, distance |-> distance])]
           /\ total_supplies_delivered' = accumulate(total_supplies_delivered, amount)
           /\ total_distance_covered' = accumulate(total_distance_covered, distance)
           /\ records' = Append(records, [center_id |-> center, zone_id |-> zone,
                                          amount |-> amount, distance |-> distance])
    /\ UNCHANGED <<initial_supply, initial_demand, priority, table, apc,
                   sorted_zones, zi, stalled, report>>
    /\ UNCHANGED gvars

RECURSIVE SeqSum(_, _)
SeqSum(f, order) ==
    IF order = <<>> THEN 0 ELSE f[Head(order)] + SeqSum(f, Tail(order))

\* the quotient with its operands swapped
Ratio_swapped(x, y, scale) == [num |-> y * scale, den |-> x]

\* a float quotient x / y * scale, kept exact as numerator over denominator
Ratio(x, y, scale) == [num |-> x * scale, den |-> y]
Zero == [num |-> 0, den |-> 1]

\* the list without the entries of the zones after the first
report_allocations_first_zone(order) ==
    IF order = <<>> THEN <<>>
    ELSE [k \in 1 .. Len(zone_allocations[Head(order)]) |->
             [center_id |-> zone_allocations[Head(order)][k].center_id,
              zone_id |-> Head(order),
              amount |-> zone_allocations[Head(order)][k].amount,
              distance |-> zone_allocations[Head(order)][k].distance]]

\* report['allocations']: for zone in self.zones.values(), its allocations
RECURSIVE report_allocations(_)
report_allocations(order) ==
    IF order = <<>> THEN <<>>
    ELSE LET zone == Head(order)
         IN  [k \in 1 .. Len(zone_allocations[zone]) |->
                 [center_id |-> zone_allocations[zone][k].center_id,
                  zone_id |-> zone,
                  amount |-> zone_allocations[zone][k].amount,
                  distance |-> zone_allocations[zone][k].distance]]
             \o report_allocations(Tail(order))

\* _generate_report
_generate_report ==
    LET total_demand == SeqSum(initial_demand, ZoneOrder)
    IN  [allocations |-> report_allocations(ZoneOrder),
         center_summary |->
            [k \in 1 .. Len(CenterOrder) |->
               LET c == CenterOrder[k]
                   total_allocated == initial_supply[c] - remaining_supply[c]
               IN  [id |-> c,
                    initial_supply |-> initial_supply[c],
                    allocated |-> total_allocated,
                    remaining |-> remaining_supply[c],
                    utilization |-> IF initial_supply[c] > 0
                                    THEN Ratio(total_allocated, initial_supply[c], 100)
                                    ELSE Zero]],
         zone_summary |->
            [k \in 1 .. Len(ZoneOrder) |->
               LET z == ZoneOrder[k]
                   total_received == initial_demand[z] - remaining_demand[z]
               IN  [id |-> z,
                    priority |-> priority[z],
                    demand |-> initial_demand[z],
                    received |-> total_received,
                    shortage |-> remaining_demand[z],
                    fulfillment |-> IF initial_demand[z] > 0
                                    THEN Ratio(total_received, initial_demand[z], 100)
                                    ELSE Zero]],
         statistics |->
            [total_distance |-> total_distance_covered,
             total_delivered |-> total_supplies_delivered,
             total_demand |-> total_demand,
             total_supply |-> SeqSum(initial_supply, CenterOrder),
             fulfillment_rate |-> IF total_demand > 0
                                  THEN Ratio(total_supplies_delivered, total_demand, 100)
                                  ELSE Zero,
             efficiency |-> IF total_distance_covered > 0
                            THEN Ratio(total_supplies_delivered, total_distance_covered, 1)
                            ELSE Zero]]

\* the for loop is over: return self._generate_report()
allocate_resources_return ==
    /\ apc = "loop"
    /\ zi > Len(sorted_zones)
    /\ report' = Append(report, _generate_report)
    /\ apc' = "done"
    /\ UNCHANGED <<initial_supply, remaining_supply, center_allocations,
                   initial_demand, remaining_demand, priority, zone_allocations,
                   table, total_distance_covered, total_supplies_delivered,
                   sorted_zones, zi, stalled, records>>
    /\ UNCHANGED gvars

\* a second call that starts from fresh objects
allocate_resources_again_reset ==
    /\ apc = "done"
    /\ Len(report) < MaxRuns
    /\ apc' = "new"
    /\ remaining_supply' = initial_supply
    /\ remaining_demand' = initial_demand
    /\ UNCHANGED <<initial_supply, center_allocations, initial_demand, priority,
                   zone_allocations, table, total_distance_covered,
                   total_supplies_delivered, sorted_zones, zi, stalled, records,
                   report>>
    /\ UNCHANGED gvars

\* allocate_resources called again on the same GreedyAllocator: the centers,
\* the zones and the running totals are the objects the last call left
allocate_resources_again ==
    /\ apc = "done"
    /\ Len(report) < MaxRuns
    /\ apc' = "new"
    /\ UNCHANGED <<initial_supply, remaining_supply, center_allocations,
                   initial_demand, remaining_demand, priority, zone_allocations,
                   table, total_distance_covered, total_supplies_delivered,
                   sorted_zones, zi, stalled, records, report>>
    /\ UNCHANGED gvars

\* ------------------------------------------------------------ specifications
\* an allocator in the shape of the module's own scenario (two centers, two
\* zones, each zone nearest to its own center), constructed and not yet run
ScenarioSupply == (0 :> 2) @@ (1 :> 3)
ScenarioDemand == (2 :> 2) @@ (3 :> 2)
ScenarioPriority == (2 :> 1) @@ (3 :> 2)
ScenarioTable == (<<0, 2>> :> 0) @@ (<<0, 3>> :> 1) @@ (<<1, 2>> :> 1) @@ (<<1, 3>> :> 0)

\* the allocator on every input within the bounds, with a complete table
Init ==
    /\ GraphNew
    /\ \E supply \in [CenterIds -> 0 .. MaxQty], demand \in [ZoneIds -> 0 .. MaxQty],
          prio \in [ZoneIds -> Priorities], dist \in [Pairs -> DistValues] :
          AllocNew(supply, demand, prio, dist)

Next ==
    \/ allocate_resources_begin
    \/ zone_next
    \/ zone_break
    \/ zone_allocate
    \/ allocate_resources_return

Spec == Init /\ [][Next]_vars

\* the allocator handed a distance table that may lack pairs: each pair is
\* missing, at distance 1, or unreachable; the priorities are the scenario's
LooseDistValues == {1, Infinity}
LooseTables == UNION {[D -> LooseDistValues] : D \in SUBSET Pairs}

LooseInit ==
    /\ GraphNew
    /\ \E supply \in [CenterIds -> 0 .. MaxQty], demand \in [ZoneIds -> 0 .. MaxQty],
          dist \in LooseTables :
          AllocNew(supply, demand, ScenarioPriority, dist)

LooseNext ==
    \/ allocate_resources_begin
    \/ zone_next
    \/ zone_break
    \/ zone_key_error
    \/ zone_allocate
    \/ allocate_resources_return

LooseSpec == LooseInit /\ [][LooseNext]_vars

\* the allocator run, and run again on the same object
AgainNext ==
    \/ allocate_resources_begin
    \/ zone_next
    \/ zone_break
    \/ zone_allocate
    \/ allocate_resources_return
    \/ allocate_resources_again

AgainSpec == Init /\ [][AgainNext]_vars

\* the graph: built by add_edge calls, then queried by dijkstra
GraphInit ==
    /\ GraphNew
    /\ AllocNew(ScenarioSupply, ScenarioDemand, ScenarioPriority, ScenarioTable)

GraphNext ==
    \/ \E u \in NodeArgs, v \in NodeArgs, w \in WeightArgs : add_edge(u, v, w)
    \/ \E s \in Nodes : dijkstra_begin(s)
    \/ dijkstra_skip
    \/ dijkstra_visit
    \/ dijkstra_return

GraphSpec == GraphInit /\ [][GraphNext]_vars

\* the graph, dijkstra as one call, then one path reconstruction, asked from
\* dijkstra's start node or from another node
reconstruct_path ==
    \E start \in {start_node, (start_node + 1) % NumNodes}, end \in Nodes :
        get_shortest_path(start, end)

PathNext ==
    \/ \E u \in NodeArgs, v \in NodeArgs, w \in WeightArgs : add_edge(u, v, w)
    \/ \E s \in Nodes : dijkstra_call(s)
    \/ reconstruct_path

PathSpec == GraphInit /\ [][PathNext]_vars

\* the graph, then the distance table computed, and computed again with the
\* same lists: the centers are the first r nodes and the zones the nodes after
\* them (main.py:262-266), or both lists are all the nodes
TableArgs ==
    {<<FirstNodes(r), NodesFrom(r)>> : r \in 1 .. (NumNodes - 1)}
        \cup {<<FirstNodes(NumNodes), NodesFrom(0)>>}

compute_table ==
    \E a \in TableArgs :
        /\ table_calls > 0 => table_args = a
        /\ compute_all_shortest_paths(a[1], a[2])

TableNext ==
    \/ \E u \in NodeArgs, v \in NodeArgs, w \in WeightArgs : add_edge(u, v, w)
    \/ compute_table

TableSpec == GraphInit /\ [][TableNext]_vars

\* ------------------------------------------------- shortest-path reference
\* the directed entries of the adjacency lists: <<from, to, weight>>
AllEntries ==
    UNION {{<<u, adjacency_list[u][i][1], adjacency_list[u][i][2]>> :
              i \in 1 .. Len(adjacency_list[u])} : u \in Nodes}

NonNegativeWeights == \A e \in AllEntries : e[3] >= 0

SetMin(S) == CHOOSE x \in S : \A y \in S : x <= y

\* least total weight of a walk of at most k edges from s to each node
RECURSIVE WalkWeight(_, _)
WalkWeight(s, k) ==
    IF k = 0 THEN [v \in Nodes |-> IF v = s THEN 0 ELSE Infinity]
    ELSE LET p == WalkWeight(s, k - 1)
         IN  [v \in Nodes |->
                SetMin({p[v]} \cup {p[e[1]] + e[3] :
                    e \in {f \in AllEntries : f[2] = v /\ p[f[1]] # Infinity}})]

\* with non-negative weights a least-weight path repeats no node
MinPathWeight(s, v) == WalkWeight(s, NumNodes - 1)[v]

\* nodes joined to s by some path
RECURSIVE ReachSet(_, _)
ReachSet(S, k) ==
    IF k = 0 THEN S
    ELSE ReachSet(S \cup {e[2] : e \in {f \in AllEntries : f[1] \in S}}, k - 1)

Reachable(s, v) == v \in ReachSet({s}, NumNodes)

\* ------------------------------------------------------------ claims
\* C1: on a graph with non-negative weights dijkstra(start) returns for each
\* node the least total weight over all paths from start (0 for start), and
\* distance +infinity with predecessor None for a node with no path.
C1_DijkstraShortest ==
    (dpc = "done" /\ NonNegativeWeights) =>
        /\ distances[start_node] = 0
        /\ \A v \in Nodes :
            /\ distances[v] = MinPathWeight(start_node, v)
            /\ ~Reachable(start_node, v) =>
                   (distances[v] = Infinity /\ previous[v] = None)
            /\ Reachable(start_node, v) => distances[v] < Infinity

\* a finished run where a node is unreachable and another was reached over the
\* lighter of two parallel edges
C1_Witness ==
    /\ dpc = "done"
    /\ NonNegativeWeights
    /\ \E v \in Nodes : distances[v] = Infinity
    /\ \E u \in Nodes \ {start_node} :
        /\ previous[u] = start_node
        /\ \E e \in AllEntries :
              e[1] = start_node /\ e[2] = u /\ e[3] > distances[u]

\* C2: add_edge rejects a negative weight, so after add_edge calls that did
\* not fail no adjacency list holds an edge with a negative weight.
C2_NoNegativeWeightStored ==
    raised = "none" => \A e \in AllEntries : e[3] >= 0

\* C3: an add_edge call that fails leaves the adjacency lists as they were.
C3_FailedAddEdgeChangesNothing ==
    [][raised' = "KeyError" => adjacency_list' = adjacency_list]_vars

\* ------------------------------------------------------ allocator claims
\* a is served before b: lower priority number, or equal priority and larger
\* initial demand
ServedBefore(a, b) ==
    \/ priority[a] < priority[b]
    \/ priority[a] = priority[b] /\ initial_demand[a] > initial_demand[b]

\* the zone is Fulfilled or Stalled
Settled(z) == remaining_demand[z] <= EPSILON \/ z \in stalled

\* C4: the sinks are served in the order (priority ascending, initial demand
\* descending): no record of a sink follows a record of a sink that comes
\* later in that order, and when a sink has a record every sink before it in
\* that order is Fulfilled or Stalled.
C4_PriorityOrder ==
    /\ \A i, j \in 1 .. Len(sorted_zones) :
          i < j => ~ServedBefore(sorted_zones[j], sorted_zones[i])
    /\ \A i, j \in 1 .. Len(records) :
          i < j => ~ServedBefore(records[j].zone_id, records[i].zone_id)
    /\ \A k \in 1 .. Len(records) : \A a \in ZoneIds :
          ServedBefore(a, records[k].zone_id) => Settled(a)

\* two sinks of equal priority, the second one given has the larger demand and
\* is served first; both got a record
C4_Witness ==
    /\ Len(records) >= 2
    /\ priority[2] = priority[3]
    /\ initial_demand[3] > initial_demand[2]
    /\ records[1].zone_id = 3
    /\ records[Len(records)].zone_id = 2

PositionOf(c) == CHOOSE i \in 1 .. Len(CenterOrder) : CenterOrder[i] = c

\* the sources that can serve zone z now
Eligible(z) ==
    {c \in CenterIds : remaining_supply[c] > EPSILON /\ table[<<c, z>>] < Infinity}

\* the step appends a record
Allocates == Len(records') = Len(records) + 1

NewRecord == records'[Len(records')]

\* C5: every record is drawn from the source that, when the record is made,
\* is nearest to the sink among the sources with remaining capacity > 0.001
\* and a finite distance; among equally near ones, the first one given.
C5_NearestSource ==
    [][Allocates =>
          LET z == NewRecord.zone_id
              c == NewRecord.center_id
          IN  /\ c \in Eligible(z)
              /\ NewRecord.distance = table[<<c, z>>]
              /\ \A d \in Eligible(z) :
                    \/ table[<<c, z>>] < table[<<d, z>>]
                    \/ table[<<c, z>>] = table[<<d, z>>] /\ PositionOf(c) <= PositionOf(d)
      ]_vars

\* the first record is drawn from the first source on a tie with the second,
\* and a later record from the second, nearer than the first that still has
\* supply
C5_Witness ==
    /\ Len(records) >= 2
    /\ records[1].center_id = 0
    /\ table[<<0, records[1].zone_id>>] = table[<<1, records[1].zone_id>>]
    /\ initial_supply[1] > EPSILON
    /\ records[2].center_id = 1
    /\ records[2].zone_id # records[1].zone_id
    /\ table[<<1, records[2].zone_id>>] < table[<<0, records[2].zone_id>>]
    /\ initial_supply[0] - records[1].amount > EPSILON

\* C6: a record's amount is the lesser of the sink's remaining demand and the
\* source's remaining capacity just before the transfer, and is positive.
C6_AmountIsMin ==
    [][Allocates =>
          LET demand == remaining_demand[NewRecord.zone_id]
              supply == remaining_supply[NewRecord.center_id]
          IN  /\ NewRecord.amount > 0
              /\ NewRecord.amount <= demand
              /\ NewRecord.amount <= supply
              /\ NewRecord.amount = demand \/ NewRecord.amount = supply
      ]_vars

\* a sink served twice: first all a source had, less than the demand, then the
\* rest of its demand, less than the second source had
C6_Witness ==
    /\ Len(records) = 2
    /\ records[1].zone_id = records[2].zone_id
    /\ records[1].amount = initial_supply[records[1].center_id]
    /\ records[1].amount < initial_demand[records[1].zone_id]
    /\ records[2].amount < initial_supply[records[2].center_id]
    /\ remaining_demand[records[2].zone_id] = 0

RECURSIVE AmountSum(_)
AmountSum(allocs) ==
    IF allocs = <<>> THEN 0 ELSE Head(allocs).amount + AmountSum(Tail(allocs))

\* C7: for every source, remaining supply = initial supply minus the amounts
\* of its own records, and is never negative.
C7_SupplyBalance ==
    \A c \in CenterIds :
        /\ remaining_supply[c] = initial_supply[c] - AmountSum(center_allocations[c])
        /\ remaining_supply[c] >= 0
        /\ AmountSum(center_allocations[c]) <= initial_supply[c]

\* a source that served both sinks and is left with nothing
C7_Witness ==
    \E c \in CenterIds :
        /\ Len(center_allocations[c]) = 2
        /\ center_allocations[c][1].zone_id # center_allocations[c][2].zone_id
        /\ remaining_supply[c] = 0

\* C8: for every sink, remaining demand = initial demand minus the amounts of
\* its own records, and is never negative.
C8_DemandBalance ==
    \A z \in ZoneIds :
        /\ remaining_demand[z] = initial_demand[z] - AmountSum(zone_allocations[z])
        /\ remaining_demand[z] >= 0
        /\ AmountSum(zone_allocations[z]) <= initial_demand[z]

\* a sink served by both sources, the second one given first, until its
\* demand is met
C8_Witness ==
    \E z \in ZoneIds :
        /\ Len(zone_allocations[z]) = 2
        /\ zone_allocations[z][1].center_id = 1
        /\ zone_allocations[z][2].center_id = 0
        /\ remaining_demand[z] = 0

\* the zone being served
Current == sorted_zones[zi]

\* C9: a sink with remaining demand > 0.001 stops being served exactly when no
\* source has remaining capacity > 0.001 and a finite distance to it; no record
\* carries the unreachable distance; a Stalled sink gets no further record.
C9_StalledIffNoSource ==
    [][/\ (apc = "loop" /\ zi <= Len(sorted_zones) /\ remaining_demand[Current] > EPSILON)
          => /\ (zi' = zi + 1) <=> (Eligible(Current) = {})
             /\ (Current \in stalled') <=> (Eligible(Current) = {})
             /\ Allocates <=> (Eligible(Current) # {})
       /\ \A k \in 1 .. Len(records') : records'[k].distance < Infinity
       /\ \A z \in stalled : /\ z \in stalled'
                             /\ zone_allocations'[z] = zone_allocations[z]
                             /\ remaining_demand'[z] = remaining_demand[z]
      ]_vars

\* a sink Stalled after one record while the other source still has supply but
\* is unreachable from it, and the other sink then served by that source
C9_Witness ==
    \E z \in stalled : \E c \in CenterIds :
        /\ Len(zone_allocations[z]) = 1
        /\ remaining_supply[c] > EPSILON
        /\ table[<<c, z>>] = Infinity
        /\ \E y \in ZoneIds \ {z} : Len(zone_allocations[y]) = 1

TotalDemand == SeqSum(initial_demand, ZoneOrder)
TotalSupply == SeqSum(initial_supply, CenterOrder)

\* the rate is below 100 per cent
Below100(rate) == rate.num < 100 * rate.den

\* C10 as stated: when total demand exceeds total supply the run returns a
\* report, some sink ends Stalled with a shortage, and the fulfillment rate is
\* below 100%.
C10_ShortageStalls ==
    (apc = "done" /\ TotalDemand > TotalSupply) =>
        /\ Len(report) = 1
        /\ \E z \in stalled : remaining_demand[z] > 0
        /\ Below100(report[1].statistics.fulfillment_rate)

\* C10 amended: when total demand exceeds total supply the run goes on to
\* return a report, some sink is reported with a shortage, and the rate is
\* below 100%; some sink ends Stalled when the excess is more than 0.001 per
\* sink.
C10_ShortageReported ==
    TotalDemand > TotalSupply =>
        /\ apc # "done" => ENABLED Next
        /\ apc = "done" =>
            /\ Len(report) = 1
            /\ \E k \in 1 .. Len(ZoneOrder) : report[1].zone_summary[k].shortage > 0
            /\ Below100(report[1].statistics.fulfillment_rate)
            /\ TotalDemand - TotalSupply > EPSILON * Len(ZoneOrder) =>
                   \E z \in stalled : remaining_demand[z] > EPSILON

\* a finished run, demand above supply: one sink Stalled after a record, the
\* other left 0.001 short without being Stalled
C10_Witness ==
    /\ apc = "done"
    /\ TotalDemand > TotalSupply
    /\ \E z \in stalled : Len(zone_allocations[z]) = 1
    /\ \E y \in ZoneIds \ stalled :
          remaining_demand[y] = EPSILON /\ Len(zone_allocations[y]) = 1

\* ------------------------------------------------------ graph query claims
\* least total weight of a path from u to v that repeats no node and enters
\* no node of seen; Infinity when there is none
RECURSIVE SimplePathWeight(_, _, _)
SimplePathWeight(u, v, seen) ==
    IF u = v THEN 0
    ELSE LET out == {f \in AllEntries : f[1] = u /\ f[2] \notin (seen \cup {u})}
             onward == [f \in out |-> SimplePathWeight(f[2], v, seen \cup {u})]
         IN  SetMin({Infinity} \cup
                    {f[3] + onward[f] : f \in {g \in out : onward[g] # Infinity}})

\* the shortest distance from s to v in the graph
ShortestDistance(s, v) == SimplePathWeight(s, v, {})

\* the distances a dijkstra call from node a returns on the graph as it is
DistancesFrom(a) == dijkstra(adjacency_list, a).distances

\* C11: on every graph built by add_edge, for connected nodes a and b the
\* distance to b returned by dijkstra(a) equals the distance to a returned by
\* dijkstra(b).
C11_SymmetricDistances ==
    dpc = "done" =>
        \A b \in Nodes :
            Reachable(start_node, b) => distances[b] = DistancesFrom(b)[start_node]

\* C12: on every graph built by add_edge, for nodes a, b, c with finite
\* pairwise distances, dist(a,c) <= dist(a,b) + dist(b,c) in the distances
\* dijkstra returns.
C12_TriangleInequality ==
    dpc = "done" =>
        \A b, c \in Nodes :
            (/\ distances[b] < Infinity
             /\ distances[c] < Infinity
             /\ DistancesFrom(b)[c] < Infinity)
                => distances[c] <= distances[b] + DistancesFrom(b)[c]

\* some entry of the adjacency lists joins u to v
Joined(u, v) == \E e \in AllEntries : e[1] = u /\ e[2] = v

\* the weight of the node sequence p, each hop over its lightest edge
RECURSIVE PathWeight(_)
PathWeight(p) ==
    IF Len(p) < 2 THEN 0
    ELSE SetMin({e[3] : e \in {f \in AllEntries : f[1] = p[1] /\ f[2] = p[2]}})
             + PathWeight(Tail(p))

\* C13: on the predecessor map of dijkstra(s), get_shortest_path(start, end)
\* returns a node sequence from start to end whose consecutive nodes are
\* joined by an edge and whose weights sum to the shortest distance, when
\* start = s and end is reachable; it returns the empty sequence when the
\* predecessor walk from end does not terminate at start.
C13_PathReconstruction ==
    ppc # "none" =>
        LET start == path_args[1]
            end == path_args[2]
            w == walk_back(previous, end, <<>>)
        IN  /\ ppc = "returned"
            /\ (start = start_node /\ Reachable(start_node, end)) =>
                  /\ path # <<>>
                  /\ path[1] = start
                  /\ path[Len(path)] = end
                  /\ \A k \in 1 .. (Len(path) - 1) : Joined(path[k], path[k + 1])
                  /\ PathWeight(path) = ShortestDistance(start, end)
            /\ (w.looping \/ w.walked[Len(w.walked)] # start) => path = <<>>

\* the pairs of sources x sinks
PairsOf(relief_centers, disaster_zones) ==
    {<<relief_centers[i], disaster_zones[j]>> :
        i \in 1 .. Len(relief_centers), j \in 1 .. Len(disaster_zones)}

\* C14: compute_all_shortest_paths returns a table whose keys are exactly the
\* pairs of sources x sinks and whose entry for a pair is the shortest
\* distance from the source to the sink, +infinity when there is no path.
C14_TableIsShortest ==
    table_calls > 0 =>
        /\ DOMAIN shortest_distances = PairsOf(table_args[1], table_args[2])
        /\ \A p \in DOMAIN shortest_distances :
              /\ shortest_distances[p] = ShortestDistance(p[1], p[2])
              /\ ~Reachable(p[1], p[2]) <=> shortest_distances[p] = Infinity

\* the step is a query: no add_edge call is made
QueryStep == add_calls' = add_calls

\* C15: dijkstra, get_shortest_path and compute_all_shortest_paths leave the
\* adjacency lists as they are, and compute_all_shortest_paths called again
\* with the same lists on the same graph returns the same table.
C15_QueriesLeaveGraph ==
    [][QueryStep =>
          /\ adjacency_list' = adjacency_list
          /\ (table_calls > 0 /\ table_calls' = table_calls + 1 /\ table_args' = table_args)
                => shortest_distances' = shortest_distances
      ]_vars

\* the table computed twice over a graph with an edge, some zone reached at a
\* positive distance
C15_Witness ==
    /\ table_calls = 2
    /\ \E p \in DOMAIN shortest_distances :
          shortest_distances[p] > 0 /\ shortest_distances[p] < Infinity

\* ------------------------------------------------------ report claims
RECURSIVE DistanceSum(_)
DistanceSum(allocs) ==
    IF allocs = <<>> THEN 0 ELSE Head(allocs).distance + DistanceSum(Tail(allocs))

\* the quotient r equals x / y
RatioIs(r, x, y) == r.den # 0 /\ y # 0 /\ r.num * y = x * r.den

\* C17: in the returned report total_delivered is the sum of the amounts of
\* all records and total_distance the sum of their distances, each counted
\* once; fulfillment_rate is total_delivered / total_demand x 100 and
\* efficiency is total_delivered / total_distance, or 0 when no distance
\* accrued.
C17_ReportTotals ==
    apc = "done" =>
        LET st == report[1].statistics
        IN  /\ st.total_delivered = AmountSum(records)
            /\ st.total_distance = DistanceSum(records)
            /\ TotalDemand > 0 =>
                  RatioIs(st.fulfillment_rate, AmountSum(records) * 100, TotalDemand)
            /\ IF DistanceSum(records) > 0
               THEN RatioIs(st.efficiency, AmountSum(records), DistanceSum(records))
               ELSE st.efficiency.num = 0 /\ st.efficiency.den # 0

\* a finished run with two records over a distance, one of them of more than
\* one unit of amount, and demand left unmet
C17_Witness ==
    /\ apc = "done"
    /\ Len(records) = 2
    /\ records[1].distance = 1
    /\ records[1].amount > 1
    /\ records[2].distance = 1
    /\ Below100(report[1].statistics.fulfillment_rate)

\* how many entries of seq equal x
Count(seq, x) == Cardinality({k \in 1 .. Len(seq) : seq[k] = x})

\* C18: the report's allocations list holds exactly one entry for each record
\* made, carrying its source id, sink id, amount and distance; for every sink
\* received + shortage = demand, for every source allocated + remaining =
\* initial supply.
C18_ReportLists ==
    apc = "done" =>
        LET r == report[1]
        IN  /\ Len(r.allocations) = Len(records)
            /\ \A k \in 1 .. Len(records) :
                  Count(r.allocations, records[k]) = Count(records, records[k])
            /\ \A k \in 1 .. Len(ZoneOrder) :
                  /\ r.zone_summary[k].id = ZoneOrder[k]
                  /\ r.zone_summary[k].demand = initial_demand[ZoneOrder[k]]
                  /\ r.zone_summary[k].received = AmountSum(zone_allocations[ZoneOrder[k]])
                  /\ r.zone_summary[k].received + r.zone_summary[k].shortage
                        = r.zone_summary[k].demand
            /\ \A k \in 1 .. Len(CenterOrder) :
                  /\ r.center_summary[k].id = CenterOrder[k]
                  /\ r.center_summary[k].initial_supply = initial_supply[CenterOrder[k]]
                  /\ r.center_summary[k].allocated = AmountSum(center_allocations[CenterOrder[k]])
                  /\ r.center_summary[k].allocated + r.center_summary[k].remaining
                        = r.center_summary[k].initial_supply

\* a report of three records that lists them in another order than they were
\* made: the sink given second was served first
C18_Witness ==
    /\ apc = "done"
    /\ Len(records) = 3
    /\ Len(report[1].allocations) = 3
    /\ report[1].allocations[1] # records[1]
    /\ \E k \in 1 .. Len(ZoneOrder) : report[1].zone_summary[k].shortage > 0

\* the zone being served needs a distance the table lacks: a center that
\* still has supply is paired with it by no key
NeedsMissingPair ==
    /\ apc = "loop"
    /\ zi <= Len(sorted_zones)
    /\ remaining_demand[sorted_zones[zi]] > EPSILON
    /\ \E c \in CenterIds :
          remaining_supply[c] > EPSILON /\ <<c, sorted_zones[zi]>> \notin DOMAIN table

\* C19: whenever the allocator needs the distance of a pair absent from the
\* table the run fails at that lookup with an error: no default is taken, no
\* record is made, the sink is not marked Stalled, no report is returned; and
\* the run fails in no other case.
C19_MissingPairFails ==
    [][/\ NeedsMissingPair <=> apc' = "KeyError"
       /\ apc' = "KeyError" =>
             /\ records' = records
             /\ stalled' = stalled
             /\ zone_allocations' = zone_allocations
             /\ center_allocations' = center_allocations
             /\ remaining_demand' = remaining_demand
             /\ remaining_supply' = remaining_supply
             /\ report' = <<>>
      ]_vars

\* a run that made a record and then failed on a sink for which one center
\* with supply has a finite distance and another no key
C19_Witness ==
    /\ apc = "KeyError"
    /\ Len(records) >= 1
    /\ \E c, d \in CenterIds :
          /\ remaining_supply[c] > EPSILON
          /\ <<c, sorted_zones[zi]>> \in DOMAIN table
          /\ table[<<c, sorted_zones[zi]>>] < Infinity
          /\ remaining_supply[d] > EPSILON
          /\ <<d, sorted_zones[zi]>> \notin DOMAIN table

\* a is an initial part of b
IsPrefix(a, b) == Len(a) <= Len(b) /\ \A k \in 1 .. Len(a) : b[k] = a[k]

\* C20: during a run the record lists only grow by appending, what they hold
\* is never changed, reordered or removed, and no remaining_supply and no
\* remaining_demand ever increases.
C20_AppendOnly ==
    [][/\ IsPrefix(records, records')
       /\ \A c \in CenterIds :
             /\ IsPrefix(center_allocations[c], center_allocations'[c])
             /\ remaining_supply'[c] <= remaining_supply[c]
       /\ \A z \in ZoneIds :
             /\ IsPrefix(zone_allocations[z], zone_allocations'[z])
             /\ remaining_demand'[z] <= remaining_demand[z]
      ]_vars

\* a sink with two records and a source with two records
C20_Witness ==
    /\ \E z \in ZoneIds : Len(zone_allocations[z]) = 2
    /\ \E c \in CenterIds : Len(center_allocations[c]) = 2
    /\ Len(records) = 3

\* ------------------------------------------------------ behaviour claims
\* the node of the heap entry the next iteration extracts
Extracted == heappop(priority_queue)[2]

\* the step is an iteration of dijkstra's while loop
LoopStep == dpc = "loop" /\ dpc' = "loop"

\* the iteration relaxes an edge: it lowers a distance, sets a predecessor or
\* pushes a heap entry
Relaxes ==
    \/ distances' # distances
    \/ previous' # previous
    \/ ~(priority_queue' \subseteq priority_queue)

\* C21: with non-negative weights, a node's tentative distance when it is
\* first extracted and marked visited is its shortest distance and is never
\* lowered afterwards; a heap entry of a visited node is skipped without
\* relaxing an edge, so each node relaxes its edges at most once; the loop
\* ends when the heap is empty, and only then.
C21_ExtractedIsFinal ==
    [][NonNegativeWeights =>
          /\ LoopStep =>
                /\ priority_queue # {}
                /\ heappop(priority_queue) \notin priority_queue'
                /\ Extracted \notin visited =>
                      /\ visited' = visited \cup {Extracted}
                      /\ distances[Extracted] = MinPathWeight(start_node, Extracted)
                /\ Extracted \in visited => (~Relaxes /\ visited' = visited)
                /\ Relaxes => (Extracted \notin visited /\ Extracted \in visited')
                /\ \A v \in visited : v \in visited' /\ distances'[v] = distances[v]
                /\ \/ visited' # visited
                   \/ (priority_queue' \subseteq priority_queue /\ priority_queue' # priority_queue)
          /\ (dpc = "loop" /\ dpc' = "done") =>
                /\ priority_queue = {}
                /\ distances' = distances
                /\ \A v \in Nodes : distances[v] < Infinity => v \in visited
          /\ (dpc = "loop" /\ priority_queue = {}) => dpc' = "done"
      ]_vars

\* the loop holds a heap entry of a node it has visited, left from the heavier
\* of two parallel edges
C21_Witness ==
    /\ dpc = "loop"
    /\ NonNegativeWeights
    /\ Cardinality(visited) = 2
    /\ \E e \in priority_queue : e[2] \in visited /\ e[1] > distances[e[2]]

\* how far allocate_resources has come
Rank(pc) == IF pc = "new" THEN 0 ELSE IF pc = "loop" THEN 1 ELSE 2

\* the run is where it can go on or has returned, and its records are within
\* the bound: at most one per (source, sink) pair, at most R per sink, at most
\* Z + R in all
RunBounded ==
    /\ apc \in {"new", "loop"} => ENABLED Next
    /\ apc = "loop" => zi <= Len(sorted_zones) + 1
    /\ Len(records) <= Len(ZoneOrder) + Len(CenterOrder)
    /\ \A z \in ZoneIds : Len(zone_allocations[z]) <= Len(CenterOrder)
    /\ \A i, j \in 1 .. Len(records) :
          (records[i].center_id = records[j].center_id
              /\ records[i].zone_id = records[j].zone_id) => i = j

\* every step moves the run on, and a step that allocates brings the sink's
\* remaining demand or the source's remaining supply to 0
RunAdvances ==
    /\ Rank(apc') >= Rank(apc)
    /\ zi' >= zi
    /\ Len(records') >= Len(records)
    /\ Rank(apc') > Rank(apc) \/ zi' > zi \/ Len(records') > Len(records)
    /\ Allocates =>
          \/ remaining_demand'[NewRecord.zone_id] = 0
          \/ remaining_supply'[NewRecord.center_id] = 0

\* C22: allocate_resources terminates on every input: each allocating step
\* brings the sink's remaining demand or the chosen source's remaining supply
\* to 0, a sink gets at most one record per source, and the run makes at most
\* Z + R records.
C22_RunTerminates == []RunBounded /\ [][RunAdvances]_vars

\* a finished run of three records: the first sink took all the first source
\* had and then part of the second, the second sink the rest of the second
C22_Witness ==
    /\ apc = "done"
    /\ Len(records) = 3
    /\ records[1].zone_id = records[2].zone_id
    /\ records[1].center_id # records[2].center_id
    /\ records[3].center_id = records[2].center_id
    /\ remaining_supply[records[1].center_id] = 0
    /\ remaining_supply[records[3].center_id] = 0
    /\ remaining_demand[records[3].zone_id] > EPSILON

\* every initial supply and demand is a whole number of quantities above the
\* tolerance.  The run compares quantities only with the tolerance and with
\* each other, so on multiples of EPSILON + 1 it takes the steps it takes on
\* whole units (multiples of 1000).
WholeQuantities ==
    /\ \A c \in CenterIds : initial_supply[c] % (EPSILON + 1) = 0
    /\ \A z \in ZoneIds : initial_demand[z] % (EPSILON + 1) = 0

AllFinite == \A p \in Pairs : table[p] < Infinity

\* C23: when allocate_resources returns, for every sink with remaining demand
\* > 0.001 every source at a finite distance from it has remaining supply
\* <= 0.001; so with every distance finite, total supply >= total demand and
\* whole quantities every sink ends Fulfilled.
C23_NoIdleSupply ==
    apc = "done" =>
        /\ \A z \in ZoneIds : remaining_demand[z] > EPSILON =>
              \A c \in CenterIds :
                  table[<<c, z>>] < Infinity => remaining_supply[c] <= EPSILON
        /\ (AllFinite /\ TotalSupply >= TotalDemand /\ WholeQuantities) =>
              \A z \in ZoneIds : remaining_demand[z] <= EPSILON /\ z \notin stalled

\* a returned run: one sink left short after it took all its reachable source
\* had, the other source still holding supply out of its reach
C23_Witness ==
    /\ apc = "done"
    /\ \E z \in ZoneIds : \E c, d \in CenterIds :
          /\ remaining_demand[z] > EPSILON
          /\ table[<<c, z>>] < Infinity
          /\ initial_supply[c] > EPSILON
          /\ remaining_supply[c] <= EPSILON
          /\ Len(zone_allocations[z]) = 1
          /\ table[<<d, z>>] = Infinity
          /\ remaining_supply[d] > EPSILON

\* a returned run on whole quantities, every distance finite, supply no less
\* than demand: a sink was served by both sources
C23_WholeCase ==
    /\ apc = "done"
    /\ AllFinite /\ WholeQuantities /\ TotalSupply >= TotalDemand
    /\ \E z \in ZoneIds : Len(zone_allocations[z]) = 2

\* the first call has returned: the step belongs to a later call
LaterCall == Len(report) >= 1

\* C24: a second call of allocate_resources on the same GreedyAllocator makes
\* no new record, changes no remaining counter and no running total, and
\* returns a report equal to the first call's.
C24_SecondCallChangesNothing ==
    [][LaterCall =>
          /\ records' = records
          /\ zone_allocations' = zone_allocations
          /\ center_allocations' = center_allocations
          /\ remaining_supply' = remaining_supply
          /\ remaining_demand' = remaining_demand
          /\ total_supplies_delivered' = total_supplies_delivered
          /\ total_distance_covered' = total_distance_covered
          /\ \A k \in 1 .. Len(report') : report'[k] = report'[1]
      ]_vars

\* the second call has returned on an allocator whose first call made records,
\* left a sink Stalled and a source with supply
C24_Witness ==
    /\ apc = "done"
    /\ Len(report) = 2
    /\ Len(records) >= 2
    /\ \E z \in stalled : remaining_demand[z] > EPSILON
    /\ \E c \in CenterIds : remaining_supply[c] > EPSILON

====
